---- MODULE Spec2Model ----
\* Verification model of win32ole-rs: the type-library catalog resolver
\* (src/src/oletypelibdata.rs) and its loose decimal parser, and the type
\* descriptor decoder (src/src/util/ole.rs).
\*
\* Strings that the code inspects character by character are sequences of
\* one-character strings; every character of the alphabet is ASCII, so the
\* character index of chars().enumerate() and the byte index of a slice agree.
\* An f64 is modelled as an exact decimal [m, e] meaning m * 10^e, kept
\* normalised (no trailing zero in m, zero is [0, 0]); double rounding is
\* not modelled.
EXTENDS Integers, Sequences, FiniteSets, TLC

VARIABLES
  pc,        \* "idle", or which operation has just returned
  input,     \* the string handed to atof
  atofOut,   \* what atof produced for it
  catalog,   \* the registry: the TypeLib tree and the CLSID tree
  loadable,  \* the paths LoadTypeLibEx accepts
  ident,     \* arguments of the last resolver call
  result,    \* what the last resolver call produced
  attempts,  \* the strategies new1 ran, in order, with their outcomes
  loads,     \* the LoadTypeLibEx calls of the last resolver call, in order
  library,   \* the loaded library behind an OleTypeLibData: its attribute block
  outstanding, \* attribute blocks obtained by GetLibAttr and not yet released
  typeinfo,  \* the ITypeInfo handed to the decoder: what its host calls answer
  typedesc,  \* the TYPEDESC handed to the decoder: its tags, outermost first
  typedetails, \* the caller's chain accumulator, None when none is supplied
  decoded    \* the string the decoder returned

vars == <<pc, input, atofOut, catalog, loadable, ident, result, attempts, loads,
          library, outstanding, typeinfo, typedesc, typedetails, decoded>>
decodeVars == <<typeinfo, typedesc, typedetails, decoded>>
handleVars == <<library, outstanding>>
atofVars == <<input, atofOut>>
regVars == <<catalog, loadable, ident, result, attempts, loads>>

\* ------------------------------------------------------------------ bounds
MaxLen == 4          \* every string over Chars up to this length is an input
MaxDigits == 2       \* digits per integer / fraction part of a decimal form
MaxExpDigits == 1    \* digits of the exponent of a decimal form

Digits == {"0", "1", "2"}
Chars == Digits \cup {".", "e", "E", "+", "-", "x"}

\* ------------------------------------------------------------------ atof
isdigit(c) == c \in {"0", "1", "2", "3", "4", "5", "6", "7", "8", "9"}

DigitVal(c) ==
  CASE c = "0" -> 0 [] c = "1" -> 1 [] c = "2" -> 2 [] c = "3" -> 3
    [] c = "4" -> 4 [] c = "5" -> 5 [] c = "6" -> 6 [] c = "7" -> 7
    [] c = "8" -> 8 [] c = "9" -> 9

\* &s[i..=i] panics unless i < s.len()
SliceOk(s, i) == i < Len(s)
CharAt(s, i) == s[i + 1]

\* m * 10^e as a normalised decimal
RECURSIVE Float(_, _)
Float(m, e) ==
  IF m = 0 THEN [m |-> 0, e |-> 0]
  ELSE IF m % 10 = 0 THEN Float(m \div 10, e + 1)
  ELSE [m |-> m, e |-> e]

Panicked == [panic |-> TRUE]
Returned(m, e) == [panic |-> FALSE, val |-> Float(m, e)]

\* for (idx, c) in t.chars().enumerate() { cur_idx = idx; if isdigit(c) {..} else { break } }
RECURSIVE DigitLoop(_, _, _)
DigitLoop(t, idx, st) ==
  IF idx >= Len(t) THEN st
  ELSE LET c == t[idx + 1]
           st1 == [st EXCEPT !.cur_idx = idx]
       IN  IF isdigit(c)
           THEN DigitLoop(t, idx + 1,
                          [st1 EXCEPT !.a = @ * 10 + DigitVal(c), !.n = @ + 1])
           ELSE st1

\* for c in t.chars() { if isdigit(c) { i = i * 10 + digit } }   (no break)
RECURSIVE ExpLoop(_, _, _)
ExpLoop(t, idx, i) ==
  IF idx >= Len(t) THEN i
  ELSE ExpLoop(t, idx + 1,
               IF isdigit(t[idx + 1]) THEN i * 10 + DigitVal(t[idx + 1]) ELSE i)

\* the fraction block: entered when s[cur_idx] is "."
AtofFraction(s, l1) ==
  IF CharAt(s, l1.cur_idx) = "."
  THEN LET n  == l1.cur_idx + 1
           l2 == DigitLoop(SubSeq(s, n + 1, Len(s)), 0,
                           [cur_idx |-> n, a |-> l1.a, n |-> 0])
       IN  [cur_idx |-> l2.cur_idx, a |-> l2.a, e |-> 0 - l2.n]
  ELSE [cur_idx |-> l1.cur_idx, a |-> l1.a, e |-> 0]

\* the exponent block: entered when s[cur_idx] is "e" or "E"
AtofExponent(s, f) ==
  IF CharAt(s, f.cur_idx) \in {"e", "E"}
  THEN LET c1 == f.cur_idx + 1
       IN  IF ~SliceOk(s, c1) THEN Panicked
           ELSE LET sign == IF CharAt(s, c1) = "-" THEN 0 - 1 ELSE 1
                    n    == IF CharAt(s, c1) \in {"+", "-"} THEN c1 + 1 ELSE c1
                    i    == ExpLoop(SubSeq(s, n + 1, Len(s)), 0, 0)
                IN  Returned(f.a, f.e + i * sign)
  ELSE Returned(f.a, f.e)

atof(s) ==
  LET l1 == DigitLoop(s, 0, [cur_idx |-> 0, a |-> 0, n |-> 0])
  IN  IF ~SliceOk(s, l1.cur_idx) THEN Panicked
      ELSE LET f == AtofFraction(s, l1)
           IN  IF ~SliceOk(s, f.cur_idx) THEN Panicked
               ELSE AtofExponent(s, f)

\* ------------------------------------------------------------ atof inputs
RECURSIVE Strings(_, _)
Strings(A, n) ==
  IF n = 0 THEN {<<>>}
  ELSE LET shorter == Strings(A, n - 1)
       IN  shorter \cup {Append(t, c) : t \in shorter, c \in A}

DigitRuns(n) == Strings(Digits, n) \ {<<>>}

\* <digits>[.<digits>][e[<sign>]<digits>]
DecimalForms ==
  LET fracs == {<<>>} \cup {<<".">> \o d : d \in DigitRuns(MaxDigits)}
      exps  == {<<>>} \cup {<<"e">> \o sg \o d :
                              sg \in {<<>>, <<"+">>, <<"-">>},
                              d \in DigitRuns(MaxExpDigits)}
  IN  {i \o f \o x : i \in DigitRuns(MaxDigits), f \in fracs, x \in exps}

AtofInputs == Strings(Chars, MaxLen) \cup DecimalForms

\* ------------------------------------------------------------ the catalog
\* A key that can be enumerated carries its name; enumOk = FALSE is an error
\* item of enum_keys().  openOk is the outcome of open_subkey on the key,
\* hasValue the outcome of get_value("") on it.
\* A path is a sequence of tokens; a token "%..%" is an environment reference.
Platform(open, hasValue, path) == [openOk |-> open, hasValue |-> hasValue, value |-> path]
NoPlatform == Platform(FALSE, FALSE, <<>>)
PlatformAt(path) == Platform(TRUE, TRUE, path)

Lang(enumOk, openOk, w64, w32, w16) ==
  [enumOk |-> enumOk, openOk |-> openOk, win64 |-> w64, win32 |-> w32, win16 |-> w16]

Version(key, enumOk, openOk, hasValue, value, langs) ==
  [key |-> key, enumOk |-> enumOk, openOk |-> openOk,
   hasValue |-> hasValue, value |-> value, langs |-> langs]

Guid(key, enumOk, openOk, versions) ==
  [key |-> key, enumOk |-> enumOk, openOk |-> openOk, versions |-> versions]

\* a key under CLSID: its InprocServer32 sub-key, and its value named
\* InprocServer32
Class(key, openOk, inprocKey, inprocValue) ==
  [key |-> key, openOk |-> openOk, inprocKey |-> inprocKey, inprocValue |-> inprocValue]

EmptyCatalog ==
  [typelibOpen |-> TRUE, guids |-> <<>>, clsidOpen |-> TRUE, classes |-> {}]

\* "let x = v; F(x)": v is evaluated once and F reads the value
Bind(v, F(_)) == CHOOSE y \in {F(x) : x \in {v}} : TRUE

\* results
Ok(v) == [kind |-> "ok", val |-> v]
Err(msg) == [kind |-> "err", msg |-> msg]
Panic == [kind |-> "panic"]
None == [some |-> FALSE]
Some(v) == [some |-> TRUE, val |-> v]

\* an error message: the format string and what is interpolated into it
Msg(fmt, name, ver) == [fmt |-> fmt, name |-> name, ver |-> ver]
WinError == Msg("windows error", "", <<>>)

NoCall == [op |-> "none"]

\* ------------------------------------------- reg_get_typelib_file_path
reg_get_typelib_file_path(hkey) ==
  IF hkey.win64.openOk /\ hkey.win64.hasValue THEN Some(hkey.win64.value)
  ELSE IF hkey.win32.openOk /\ hkey.win32.hasValue THEN Some(hkey.win32.value)
  ELSE IF hkey.win16.openOk /\ hkey.win16.hasValue THEN Some(hkey.win16.value)
  ELSE None

\* open_subkey by name under a list of enumerated keys
HasKey(keys, name) ==
  \E k \in 1..Len(keys) : keys[k].enumOk /\ keys[k].key = name /\ keys[k].openOk
KeyNamed(keys, name) ==
  keys[CHOOSE k \in 1..Len(keys) : keys[k].enumOk /\ keys[k].key = name /\ keys[k].openOk]

\* ------------------------------------------------------ oletypelib_path
\* the loop over hkey.enum_keys(): the first sub-key that enumerates and opens
\* decides, whatever reg_get_typelib_file_path returns for it
RECURSIVE oletypelib_path_loop(_, _)
oletypelib_path_loop(langs, k) ==
  IF k > Len(langs) THEN None
  ELSE IF langs[k].enumOk /\ langs[k].openOk
       THEN reg_get_typelib_file_path(langs[k])
       ELSE oletypelib_path_loop(langs, k + 1)

oletypelib_path(cat, guid, version) ==
  IF /\ cat.typelibOpen
     /\ HasKey(cat.guids, guid)
     /\ HasKey(KeyNamed(cat.guids, guid).versions, version)
  THEN oletypelib_path_loop(KeyNamed(KeyNamed(cat.guids, guid).versions, version).langs, 1)
  ELSE None

\* ------------------------------------------------------- LoadTypeLibEx
LoadTypeLibEx(ld, path) ==
  IF path \in ld THEN Ok(path) ELSE Err(WinError)

LoadCall(site, path) == [site |-> site, path |-> path]

\* ------------------------------------------------- oletypelib_from_guid
\* [res, loads]: the outcome and the loader calls made
oletypelib_from_guid(cat, ld, guid, version) ==
  Bind(oletypelib_path(cat, guid, version), LAMBDA path :
    IF ~path.some
    THEN [res |-> Err(Msg("E_UNEXPECTED", "", <<>>)), loads |-> <<>>]
    ELSE [res |-> LoadTypeLibEx(ld, path.val),
          loads |-> <<LoadCall("from_guid", path.val)>>])

\* ---------------------------------------------------- name_from_typelib
\* GetDocumentation(-1) of a loaded library; it fails for the libraries in
\* Undocumented, and the callers then use the empty name
Undocumented == {<<"b16">>}
name_from_typelib(typelib) ==
  IF typelib \in Undocumented THEN Err(WinError) ELSE Ok(<<"doc">> \o typelib)

OleTypeLibData(typelib) ==
  LET name == name_from_typelib(typelib)
  IN  [typelib |-> typelib, name |-> IF name.kind = "ok" THEN name.val ELSE <<>>]

\* ------------------------------------------- oletypelib_search_registry
\* the inner loop over hguid.enum_keys(); [found, data, loads]
RECURSIVE search_registry_versions(_, _, _, _, _, _, _)
search_registry_versions(cat, ld, typelib_str, guid, versions, j, lds) ==
  IF j > Len(versions) THEN [found |-> FALSE, loads |-> lds]
  ELSE LET v == versions[j]
       IN  IF ~v.enumOk \/ ~v.openOk \/ ~v.hasValue \/ typelib_str # v.value
           THEN search_registry_versions(cat, ld, typelib_str, guid, versions, j + 1, lds)
           ELSE Bind(oletypelib_from_guid(cat, ld, guid, v.key), LAMBDA r :
                  IF r.res.kind = "ok"
                  THEN [found |-> TRUE, data |-> OleTypeLibData(r.res.val),
                        loads |-> lds \o r.loads]
                  ELSE search_registry_versions(cat, ld, typelib_str, guid, versions,
                                                j + 1, lds \o r.loads))

\* the outer loop over htypelib.enum_keys()
RECURSIVE search_registry_guids(_, _, _, _, _)
search_registry_guids(cat, ld, typelib_str, g, lds) ==
  IF g > Len(cat.guids) THEN [found |-> FALSE, loads |-> lds]
  ELSE LET hguid == cat.guids[g]
       IN  IF ~hguid.enumOk \/ ~hguid.openOk
           THEN search_registry_guids(cat, ld, typelib_str, g + 1, lds)
           ELSE Bind(search_registry_versions(cat, ld, typelib_str, hguid.key,
                                              hguid.versions, 1, lds), LAMBDA r :
                  IF r.found THEN r
                  ELSE search_registry_guids(cat, ld, typelib_str, g + 1, r.loads))

oletypelib_search_registry(cat, ld, typelib_str) ==
  IF ~cat.typelibOpen THEN [res |-> Err(WinError), loads |-> <<>>]
  ELSE Bind(search_registry_guids(cat, ld, typelib_str, 1, <<>>), LAMBDA r :
         IF r.found THEN [res |-> Ok(r.data), loads |-> r.loads]
         ELSE [res |-> Err(Msg("type library <name> was not found", typelib_str, <<>>)),
               loads |-> r.loads])

\* ----------------------------------------------------- make_version_str
make_version_str(major, minor) ==
  IF major = <<>> THEN None
  ELSE Some(major \o (IF minor # <<>> THEN <<".">> \o minor ELSE <<>>))

\* ------------------------------------------ oletypelib_search_registry2
RECURSIVE Pow10(_)
Pow10(n) == IF n = 0 THEN 1 ELSE 10 * Pow10(n - 1)

\* x < y on decimals
Less(x, y) ==
  LET emin == IF x.e < y.e THEN x.e ELSE y.e
  IN  x.m * Pow10(x.e - emin) < y.m * Pow10(y.e - emin)

\* the loop over hguid.enum_keys() when no version was given
RECURSIVE registry2_scan(_, _, _)
registry2_scan(versions, j, st) ==
  IF j > Len(versions) THEN st
  ELSE LET v == versions[j]
       IN  IF ~v.enumOk THEN st
           ELSE IF ~v.openOk \/ ~v.hasValue THEN registry2_scan(versions, j + 1, st)
           ELSE Bind(atof(v.key), LAMBDA f :
                  IF f.panic THEN [st EXCEPT !.panic = TRUE]
                  ELSE IF Less(st.fver, f.val)
                  THEN registry2_scan(versions, j + 1,
                         [st EXCEPT !.fver = f.val, !.version = v.key,
                                    !.typelib_str = v.value])
                  ELSE registry2_scan(versions, j + 1, st))

\* the version key and display name selected, before anything is loaded
registry2_select(hguid, version_str) ==
  LET none == [fver |-> Float(0, 0), version |-> <<>>, typelib_str |-> "",
               panic |-> FALSE]
  IN  IF version_str.some
      THEN IF /\ HasKey(hguid.versions, version_str.val)
              /\ KeyNamed(hguid.versions, version_str.val).hasValue
           THEN [none EXCEPT
                   !.typelib_str = KeyNamed(hguid.versions, version_str.val).value,
                   !.version = version_str.val]
           ELSE none
      ELSE registry2_scan(hguid.versions, 1, none)

oletypelib_search_registry2(cat, ld, args) ==
  LET guid        == args[1]
      version_str == make_version_str(args[2], args[3])
  IN  IF ~cat.typelibOpen \/ ~HasKey(cat.guids, guid)
      THEN [res |-> Err(WinError), loads |-> <<>>]
      ELSE
      Bind(registry2_select(KeyNamed(cat.guids, guid), version_str), LAMBDA sel :
        IF sel.panic THEN [res |-> Panic, loads |-> <<>>]
        ELSE
        Bind(IF sel.typelib_str # ""
             THEN oletypelib_from_guid(cat, ld, guid, sel.version)
             ELSE [res |-> Err(WinError), loads |-> <<>>], LAMBDA r :
          IF r.res.kind = "ok"
          THEN [res |-> Ok(OleTypeLibData(r.res.val)), loads |-> r.loads]
          ELSE [res |-> Err(Msg(IF version_str.some
                                THEN "type library <name> version <ver> was not found"
                                ELSE "type library <name>  was not found",
                                sel.typelib_str,
                                IF version_str.some THEN version_str.val ELSE <<>>)),
                loads |-> r.loads]))

\* ------------------------------------------------- OleTypeLibData::new1
Attempt(strategy, res) == [strategy |-> strategy, res |-> res]

\* new1 with the two registry strategies in the opposite order
new1_guid_first(cat, ld, typelib_str) ==
  Bind(oletypelib_search_registry2(cat, ld, <<typelib_str, <<>>, <<>>>>), LAMBDA s1 :
    IF s1.res.kind # "err"
    THEN [res |-> s1.res, attempts |-> <<Attempt("by_guid", s1.res)>>, loads |-> s1.loads]
    ELSE
    Bind(oletypelib_search_registry(cat, ld, typelib_str), LAMBDA s2 :
      LET a2 == <<Attempt("by_guid", s1.res), Attempt("by_name", s2.res)>>
          l2 == s1.loads \o s2.loads
      IN  IF s2.res.kind # "err"
          THEN [res |-> s2.res, attempts |-> a2, loads |-> l2]
          ELSE
          Bind(LoadTypeLibEx(ld, <<typelib_str>>), LAMBDA typelib :
            LET s3 == IF typelib.kind = "ok"
                      THEN Ok(OleTypeLibData(typelib.val))
                      ELSE Err(Msg("type library <name> not found", typelib_str, <<>>))
            IN  [res |-> s3,
                 attempts |-> Append(a2, Attempt("direct", s3)),
                 loads |-> Append(l2, LoadCall("direct", <<typelib_str>>))])))

\* new1 returning the by-GUID strategy's error when the direct load fails
new1_surfaces_registry_error(cat, ld, typelib_str) ==
  Bind(oletypelib_search_registry(cat, ld, typelib_str), LAMBDA s1 :
    IF s1.res.kind # "err"
    THEN [res |-> s1.res, attempts |-> <<Attempt("by_name", s1.res)>>, loads |-> s1.loads]
    ELSE
    Bind(oletypelib_search_registry2(cat, ld, <<typelib_str, <<>>, <<>>>>), LAMBDA s2 :
      LET a2 == <<Attempt("by_name", s1.res), Attempt("by_guid", s2.res)>>
          l2 == s1.loads \o s2.loads
      IN  IF s2.res.kind # "err"
          THEN [res |-> s2.res, attempts |-> a2, loads |-> l2]
          ELSE
          Bind(LoadTypeLibEx(ld, <<typelib_str>>), LAMBDA typelib :
            LET s3 == IF typelib.kind = "ok"
                      THEN Ok(OleTypeLibData(typelib.val))
                      ELSE s2.res
            IN  [res |-> s3,
                 attempts |-> Append(a2, Attempt("direct", s3)),
                 loads |-> Append(l2, LoadCall("direct", <<typelib_str>>))])))

new1(cat, ld, typelib_str) ==
  Bind(oletypelib_search_registry(cat, ld, typelib_str), LAMBDA s1 :
    IF s1.res.kind # "err"
    THEN [res |-> s1.res, attempts |-> <<Attempt("by_name", s1.res)>>, loads |-> s1.loads]
    ELSE
    Bind(oletypelib_search_registry2(cat, ld, <<typelib_str, <<>>, <<>>>>), LAMBDA s2 :
      LET a2 == <<Attempt("by_name", s1.res), Attempt("by_guid", s2.res)>>
          l2 == s1.loads \o s2.loads
      IN  IF s2.res.kind # "err"
          THEN [res |-> s2.res, attempts |-> a2, loads |-> l2]
          ELSE
          Bind(LoadTypeLibEx(ld, <<typelib_str>>), LAMBDA typelib :
            LET s3 == IF typelib.kind = "ok"
                      THEN Ok(OleTypeLibData(typelib.val))
                      ELSE Err(Msg("type library <name> not found", typelib_str, <<>>))
            IN  [res |-> s3,
                 attempts |-> Append(a2, Attempt("direct", s3)),
                 loads |-> Append(l2, LoadCall("direct", <<typelib_str>>))])))

\* -------------------------------------------- typelib_file_from_typelib
\* the loop over hversion.enum_keys(): "found" with the path, "none", or "err"
\* when the enumeration yields an error
RECURSIVE from_typelib_langs(_, _)
from_typelib_langs(langs, k) ==
  IF k > Len(langs) THEN [kind |-> "none"]
  ELSE IF ~langs[k].enumOk THEN [kind |-> "err"]
  ELSE IF ~langs[k].openOk THEN from_typelib_langs(langs, k + 1)
  ELSE Bind(reg_get_typelib_file_path(langs[k]), LAMBDA file :
         IF file.some THEN [kind |-> "found", path |-> file.val]
         ELSE from_typelib_langs(langs, k + 1))

\* the loop over hclsid.enum_keys(); fver is the largest version seen so far
\* under this GUID; "panic" when atof panics on a version key
RECURSIVE from_typelib_versions(_, _, _, _)
from_typelib_versions(versions, j, fver, ole) ==
  IF j > Len(versions) THEN [kind |-> "none"]
  ELSE LET v == versions[j]
       IN  IF ~v.enumOk THEN [kind |-> "err"]
           ELSE IF ~v.openOk THEN from_typelib_versions(versions, j + 1, fver, ole)
           ELSE Bind(atof(v.key), LAMBDA f :
                  IF f.panic THEN [kind |-> "panic"]
                  ELSE IF Less(f.val, fver)
                  THEN from_typelib_versions(versions, j + 1, fver, ole)
                  ELSE IF ~v.hasValue \/ v.value # ole
                  THEN from_typelib_versions(versions, j + 1, f.val, ole)
                  ELSE Bind(from_typelib_langs(v.langs, 1), LAMBDA r :
                         IF r.kind = "none"
                         THEN from_typelib_versions(versions, j + 1, f.val, ole)
                         ELSE r))

\* the loop over htypelib.enum_keys()
RECURSIVE from_typelib_guids(_, _, _)
from_typelib_guids(guids, g, ole) ==
  IF g > Len(guids) THEN [kind |-> "none"]
  ELSE IF ~guids[g].enumOk THEN [kind |-> "err"]
  ELSE IF ~guids[g].openOk THEN from_typelib_guids(guids, g + 1, ole)
  ELSE Bind(from_typelib_versions(guids[g].versions, 1, Float(0, 0), ole), LAMBDA r :
         IF r.kind = "none" THEN from_typelib_guids(guids, g + 1, ole) ELSE r)

\* file.unwrap() at the end panics when no loop iteration set file
typelib_file_from_typelib(cat, ole) ==
  IF ~cat.typelibOpen THEN Err(WinError)
  ELSE Bind(from_typelib_guids(cat.guids, 1, ole), LAMBDA r :
         CASE r.kind = "found" -> Ok(r.path)
           [] r.kind = "err"   -> Err(WinError)
           [] r.kind = "none"  -> Panic
           [] r.kind = "panic" -> Panic)

\* ---------------------------------------------- typelib_file_from_clsid
Env == [v \in {"%SystemRoot%"} |-> "C:/Windows"]

\* ExpandEnvironmentStringsW: defined variables are replaced, the rest is kept
ExpandEnvironmentStrings(path) ==
  [k \in 1..Len(path) |-> IF path[k] \in DOMAIN Env THEN Env[path[k]] ELSE path[k]]

HasClass(cat, ole) ==
  cat.clsidOpen /\ \E c \in cat.classes : c.key = ole /\ c.openOk
ClassNamed(cat, ole) == CHOOSE c \in cat.classes : c.key = ole /\ c.openOk

\* the value read for the in-process server
inproc_value(hclsid) ==
  IF hclsid.inprocKey.openOk
  THEN IF hclsid.inprocKey.hasValue THEN Ok(hclsid.inprocKey.value) ELSE Err(WinError)
  ELSE IF hclsid.inprocValue.hasValue THEN Ok(hclsid.inprocValue.value) ELSE Err(WinError)

\* typelib_pcwstr points into the temporary of to_wide_null(), which is freed at
\* the end of its let statement: both ExpandEnvironmentStringsW calls and
\* to_string() read freed memory.  What to_string() finds there is the stored
\* string when the block was left alone, the expansion when the output buffer
\* was allocated over it, or something else, which may not be valid UTF-16.
\* The buffer that receives the expansion is never read.
Garbage == <<"?">>
dangling_read(typelib) ==
  {Ok(typelib), Ok(ExpandEnvironmentStrings(typelib)), Ok(Garbage), Err(WinError)}

\* every result the call can produce
typelib_file_from_clsid(cat, ole) ==
  IF ~HasClass(cat, ole) THEN {Err(WinError)}
  ELSE Bind(inproc_value(ClassNamed(cat, ole)), LAMBDA typelib :
         IF typelib.kind = "ok" THEN dangling_read(typelib.val) ELSE {typelib})

\* --------------------------------------------------------- typelib_file
\* every [res, attempts] the call can produce
typelib_file(cat, ole) ==
  {IF file.kind = "ok"
   THEN [res |-> file, attempts |-> <<Attempt("from_clsid", file)>>]
   ELSE Bind(typelib_file_from_typelib(cat, ole), LAMBDA r :
          [res |-> r,
           attempts |-> <<Attempt("from_clsid", file), Attempt("from_typelib", r)>>])
   : file \in typelib_file_from_clsid(cat, ole)}

\* ------------------------------------------------------- initial parts
NoResult == [kind |-> "none"]

NoResolverCall ==
  /\ ident = NoCall
  /\ result = NoResult
  /\ attempts = <<>>
  /\ loads = <<>>

NoAtofCall ==
  /\ input = <<>>
  /\ atofOut = Panicked

NoTypeInfo == [GetRefTypeInfo |-> None]
NoDecodeCall ==
  /\ typeinfo = NoTypeInfo
  /\ typedesc = <<>>
  /\ typedetails = None
  /\ decoded = ""

NoLibrary == [guid |-> "", wMajorVerNum |-> 0, wMinorVerNum |-> 0, wLibFlags |-> 0,
              registered |-> FALSE]

NoHandle ==
  /\ library = NoLibrary
  /\ outstanding = 0

InitAtof ==
  /\ pc = "idle"
  /\ input \in AtofInputs
  /\ atofOut = Panicked
  /\ catalog = EmptyCatalog
  /\ loadable = {}
  /\ NoResolverCall
  /\ NoDecodeCall
  /\ NoHandle

AtofCall ==
  /\ pc = "idle"
  /\ pc' = "atof_done"
  /\ atofOut' = atof(input)
  /\ UNCHANGED <<decodeVars, input, regVars, handleVars>>

NextAtof == AtofCall

SpecAtof == InitAtof /\ [][NextAtof]_vars

\* ------------------------------------- resolve_by_guid_version: the runs
MaxLangs == 2        \* language sub-keys under one version key

V10 == <<"1", ".", "0">>
V20 == <<"2", ".", "0">>

LangPool ==
  { Lang(TRUE, TRUE, NoPlatform, NoPlatform, NoPlatform),
    Lang(TRUE, TRUE, NoPlatform, PlatformAt(<<"a32">>), NoPlatform),
    Lang(TRUE, TRUE, PlatformAt(<<"b64">>), PlatformAt(<<"b32">>), PlatformAt(<<"b16">>)),
    Lang(TRUE, TRUE, NoPlatform, NoPlatform, PlatformAt(<<"c16">>)),
    Lang(TRUE, TRUE, Platform(TRUE, FALSE, <<>>), PlatformAt(<<"d32">>), PlatformAt(<<"d16">>)),
    Lang(TRUE, FALSE, NoPlatform, PlatformAt(<<"e32">>), NoPlatform),
    Lang(FALSE, FALSE, NoPlatform, NoPlatform, NoPlatform) }

LangPaths == {<<"a32">>, <<"b64">>, <<"b32">>, <<"b16">>, <<"c16">>, <<"d32">>, <<"d16">>, <<"e32">>}

RECURSIVE SeqsUpTo(_, _)
SeqsUpTo(S, n) ==
  IF n = 0 THEN {<<>>}
  ELSE LET shorter == SeqsUpTo(S, n - 1)
       IN  shorter \cup {Append(t, x) : t \in shorter, x \in S}

InitGuid ==
  /\ pc = "idle"
  /\ NoAtofCall
  /\ NoResolverCall
  /\ NoDecodeCall
  /\ NoHandle
  /\ loadable \in {{}, {<<"a32">>, <<"b64">>}, LangPaths}
  /\ \E present \in BOOLEAN, open \in BOOLEAN, langs \in SeqsUpTo(LangPool, MaxLangs) :
       catalog = [EmptyCatalog EXCEPT !.guids =
                    <<Guid("{G}", TRUE, TRUE,
                           IF present
                           THEN <<Version(V10, TRUE, open, TRUE, "Lib", langs)>>
                           ELSE <<>>)>>]

FromGuidCall ==
  /\ pc = "idle"
  /\ \E guid \in {"{G}", "{H}"}, version \in {V10, V20} :
       \E r \in {oletypelib_from_guid(catalog, loadable, guid, version)} :
           /\ ident' = [op |-> "oletypelib_from_guid", guid |-> guid, version |-> version]
           /\ result' = r.res
           /\ loads' = r.loads
  /\ pc' = "from_guid_done"
  /\ UNCHANGED <<decodeVars, atofVars, handleVars, catalog, loadable, attempts>>

NextGuid == FromGuidCall

SpecGuid == InitGuid /\ [][NextGuid]_vars

\* ------------------------------------------ the by-GUID strategy: the runs
MaxVersions == 3     \* version keys under one GUID

V15 == <<"1", ".", "5">>
V1 == <<"1">>
V00 == <<"0", ".", "0">>
V1dot == <<"1", ".">>
VersionKeys == {V10, V20, V15, V1, V00, V1dot}

\* every version key has one language sub-key with a win32 path of its own
LibPath(key) == <<"lib">> \o key
LangOf(key) == <<Lang(TRUE, TRUE, NoPlatform, PlatformAt(LibPath(key)), NoPlatform)>>

EnumError == Version(<<>>, FALSE, FALSE, FALSE, "", <<>>)

VersionPool ==
  {Version(k, TRUE, TRUE, TRUE, "Lib", LangOf(k)) : k \in VersionKeys}
    \cup {Version(k, TRUE, TRUE, TRUE, "", LangOf(k)) : k \in {V10, V20}}
    \cup {Version(k, TRUE, FALSE, FALSE, "", LangOf(k)) : k \in {V10, V20}}
    \cup {Version(k, TRUE, TRUE, FALSE, "", LangOf(k)) : k \in {V20}}

\* key names are unique under a key, and an enumeration that fails yields no
\* further keys
DistinctKeys(keys) ==
  \A i, j \in 1..Len(keys) :
     (i < j /\ keys[i].enumOk /\ keys[j].enumOk) => keys[i].key # keys[j].key
ErrorOnlyLast(keys) == \A i \in 1..Len(keys) : ~keys[i].enumOk => i = Len(keys)

VersionLists(pool, n) ==
  {vs \in SeqsUpTo(pool \cup {EnumError}, n) : DistinctKeys(vs) /\ ErrorOnlyLast(vs)}

InitRegistry2 ==
  /\ pc = "idle"
  /\ NoAtofCall
  /\ NoResolverCall
  /\ NoDecodeCall
  /\ NoHandle
  /\ loadable \in {{}, {LibPath(k) : k \in VersionKeys}}
  /\ \E vs \in VersionLists(VersionPool, MaxVersions) :
       catalog = [EmptyCatalog EXCEPT !.guids = <<Guid("{G}", TRUE, TRUE, vs)>>]

Registry2Call ==
  /\ pc = "idle"
  /\ \E args \in {<<"{G}", <<>>, <<>>>>, <<"{G}", <<"1">>, <<"0">>>>,
                  <<"{G}", <<"1">>, <<>>>>, <<"{H}", <<>>, <<>>>>} :
       \E r \in {oletypelib_search_registry2(catalog, loadable, args)} :
           /\ ident' = [op |-> "oletypelib_search_registry2", guid |-> args[1],
                        major |-> args[2], minor |-> args[3]]
           /\ result' = r.res
           /\ loads' = r.loads
  /\ pc' = "registry2_done"
  /\ UNCHANGED <<decodeVars, atofVars, handleVars, catalog, loadable, attempts>>

NextRegistry2 == Registry2Call

SpecRegistry2 == InitRegistry2 /\ [][NextRegistry2]_vars

\* ---------------------------------------------- the by-GUID strategy: claims
Readable(versions) ==
  {j \in 1..Len(versions) : versions[j].enumOk /\ versions[j].openOk /\ versions[j].hasValue}

\* C3: with no version supplied and a non-empty set of readable version keys
\* under the GUID, the key of numerically largest parse_loose_decimal value,
\* first seen among equals, is selected and the library of that GUID and key
\* is loaded.
C3_LargestVersionFirstSeenIsLoaded ==
  (/\ pc = "registry2_done"
   /\ ident.major = <<>>
   /\ HasKey(catalog.guids, ident.guid)
   /\ Readable(KeyNamed(catalog.guids, ident.guid).versions) # {}) =>
    LET vs == KeyNamed(catalog.guids, ident.guid).versions
        R  == Readable(vs)
    IN  /\ result.kind # "panic"
        /\ \A j \in R : ~atof(vs[j].key).panic
        /\ LET val(j) == atof(vs[j].key).val
               best == CHOOSE j \in R :
                         /\ \A i \in R : ~Less(val(j), val(i))
                         /\ \A i \in R : i < j => Less(val(i), val(j))
           IN  loads = <<LoadCall("from_guid", LibPath(vs[best].key))>>

\* ------------------------------------------------------ resolve: the runs
MaxGuids == 2        \* GUID keys under TypeLib

\* identifiers: a display name, a GUID key, a file path, and one that is none
Identifiers == {"Lib", "{G}", "x.tlb", "Unregistered"}

ResolveLang == <<Lang(TRUE, TRUE, NoPlatform, PlatformAt(<<"a32">>), NoPlatform)>>

ResolveVersionPool ==
  { Version(V10, TRUE, TRUE, TRUE, "Lib", ResolveLang),
    Version(V10, TRUE, TRUE, TRUE, "Lib", <<>>),
    Version(V10, TRUE, TRUE, TRUE, "Other", ResolveLang),
    Version(V1dot, TRUE, TRUE, TRUE, "Other", ResolveLang) }

ResolveGuidPool ==
  {Guid(g, TRUE, TRUE, vs) :
     g \in {"{G}", "{H}"},
     vs \in {l \in SeqsUpTo(ResolveVersionPool, MaxVersions) : DistinctKeys(l)}}

InitResolve ==
  /\ pc = "idle"
  /\ NoAtofCall
  /\ NoResolverCall
  /\ NoDecodeCall
  /\ NoHandle
  /\ loadable \in SUBSET {<<"a32">>, <<"x.tlb">>}
  /\ \E open \in BOOLEAN,
        gs \in {l \in SeqsUpTo(ResolveGuidPool, MaxGuids) : DistinctKeys(l)} :
       catalog = [EmptyCatalog EXCEPT !.typelibOpen = open, !.guids = gs]

New1Call ==
  /\ pc = "idle"
  /\ \E typelib_str \in Identifiers :
       \E r \in {new1(catalog, loadable, typelib_str)} :
           /\ ident' = [op |-> "new1", typelib_str |-> typelib_str]
           /\ result' = r.res
           /\ attempts' = r.attempts
           /\ loads' = r.loads
  /\ pc' = "new1_done"
  /\ UNCHANGED <<decodeVars, atofVars, handleVars, catalog, loadable>>

NextResolve == New1Call

SpecResolve == InitResolve /\ [][NextResolve]_vars

\* ---------------------------------------------------------- resolve: claims
StrategyOrder == <<"by_name", "by_guid", "direct">>

\* C1: the strategies run in the order by-name, by-GUID, direct; a later one is
\* attempted only when every earlier one failed; the handle returned is that of
\* the first strategy that succeeded; the direct loader is not called with the
\* identifier when a registry strategy succeeded.
C1_StrictOrderFirstSuccessWins ==
  pc = "new1_done" =>
    /\ Len(attempts) \in 1..3
    /\ \A k \in 1..Len(attempts) : attempts[k].strategy = StrategyOrder[k]
    /\ \A k \in 1..(Len(attempts) - 1) : attempts[k].res.kind = "err"
    /\ result = attempts[Len(attempts)].res
    /\ (\E k \in 1..Len(loads) : loads[k].site = "direct") =>
          /\ Len(attempts) = 3
          /\ loads[Len(loads)] = LoadCall("direct", <<ident.typelib_str>>)
          /\ \A k \in 1..(Len(loads) - 1) : loads[k].site # "direct"

\* a later strategy succeeded after the earlier ones failed
C1_Witness ==
  /\ pc = "new1_done"
  /\ Len(attempts) = 2
  /\ attempts[1].res.kind = "err"
  /\ result.kind = "ok"
  /\ loads # <<>>

\* C2: when the by-name scan, the by-GUID lookup and the direct load all fail,
\* the call returns an error whose message contains the identifier, and it is
\* neither of the two earlier strategies' messages.
C2_TerminalErrorNamesIdentifier ==
  (/\ pc = "new1_done"
   /\ Len(attempts) = 3
   /\ \A k \in 1..3 : attempts[k].res.kind = "err") =>
    /\ result.kind = "err"
    /\ result.msg.name = ident.typelib_str
    /\ result.msg # attempts[1].res.msg
    /\ result.msg # attempts[2].res.msg

\* all three strategies were tried and failed, the registry ones after
\* looking at a catalog entry
C2_Witness ==
  /\ pc = "new1_done"
  /\ Len(attempts) = 3
  /\ \A k \in 1..3 : attempts[k].res.kind = "err"
  /\ attempts[2].res.msg.fmt = "type library <name>  was not found"
  /\ result.kind = "err"

\* ----------------------------------------- resolve_by_guid_version claims
\* the 64-bit, then 32-bit, then 16-bit preference, as the claims state it
HasPath(pf) == pf.openOk /\ pf.hasValue
HoldsPath(lang) ==
  lang.enumOk /\ lang.openOk /\ (HasPath(lang.win64) \/ HasPath(lang.win32) \/ HasPath(lang.win16))
PreferredPath(lang) ==
  IF HasPath(lang.win64) THEN lang.win64.value
  ELSE IF HasPath(lang.win32) THEN lang.win32.value
  ELSE lang.win16.value

\* the preferred paths of the sub-entries of the entry at exactly guid\version
ExactEntryPaths(cat, guid, version) ==
  IF /\ cat.typelibOpen
     /\ HasKey(cat.guids, guid)
     /\ HasKey(KeyNamed(cat.guids, guid).versions, version)
  THEN LET langs == KeyNamed(KeyNamed(cat.guids, guid).versions, version).langs
       IN  {PreferredPath(langs[k]) : k \in {j \in 1..Len(langs) : HoldsPath(langs[j])}}
  ELSE {}

\* C9: whenever the entry at the exact GUID and version has a sub-entry holding
\* a platform path, the loader is called on exactly a path obtained by the
\* 64/32/16 preference; an error without a loader call is returned only when
\* the entry is absent or no sub-entry holds a platform path.
C9_PathOfAnySubEntryIsLoaded ==
  pc = "from_guid_done" =>
    LET paths == ExactEntryPaths(catalog, ident.guid, ident.version)
    IN  /\ (paths # {} => Len(loads) = 1 /\ loads[1].path \in paths)
        /\ ((result.kind = "err" /\ loads = <<>>) => paths = {})

\* --------------------------------------------- resolve_by_class: the runs
ServerRef == <<"%SystemRoot%", "/a.dll">>     \* a stored path with a reference
ServerPlain == <<"C:/b.dll">>                 \* a stored path without one

NoValue == [hasValue |-> FALSE, value |-> <<>>]
ClassPool ==
  { Class("{C}", TRUE, PlatformAt(ServerRef), NoValue),
    Class("{C}", TRUE, PlatformAt(ServerPlain), NoValue),
    Class("{C}", TRUE, NoPlatform, [hasValue |-> TRUE, value |-> ServerRef]),
    Class("{C}", TRUE, Platform(TRUE, FALSE, <<>>), [hasValue |-> TRUE, value |-> ServerRef]),
    Class("{C}", TRUE, NoPlatform, NoValue),
    Class("{C}", FALSE, PlatformAt(ServerRef), NoValue) }

Lang32 == Lang(TRUE, TRUE, NoPlatform, PlatformAt(<<"a32">>), NoPlatform)
LangNone == Lang(TRUE, TRUE, NoPlatform, NoPlatform, NoPlatform)
LangAll == Lang(TRUE, TRUE, PlatformAt(<<"b64">>), PlatformAt(<<"b32">>), PlatformAt(<<"b16">>))
Lang16 == Lang(TRUE, TRUE, Platform(TRUE, FALSE, <<>>), NoPlatform, PlatformAt(<<"c16">>))

ClassVersionPool ==
  { Version(V10, TRUE, TRUE, TRUE, "Lib", <<Lang32>>),
    Version(V10, TRUE, TRUE, TRUE, "Other", <<Lang32>>),
    Version(V10, TRUE, TRUE, TRUE, "Lib", <<Lang16>>),
    Version(V20, TRUE, TRUE, TRUE, "Lib", <<LangNone, LangAll>>),
    Version(V20, TRUE, TRUE, TRUE, "Lib", <<>>),
    Version(V20, TRUE, TRUE, TRUE, "Other", <<>>),
    Version(V20, TRUE, TRUE, FALSE, "", <<>>) }

GuidEnumError == Guid("", FALSE, FALSE, <<>>)

ClassGuidPool ==
  {Guid(g, TRUE, TRUE, vs) :
     g \in {"{G}", "{H}"}, vs \in VersionLists(ClassVersionPool, MaxVersions)}
    \cup {Guid("{H}", TRUE, FALSE, <<Version(V10, TRUE, TRUE, TRUE, "Lib", <<Lang32>>)>>)}

ClassTrees ==
  {gs \in SeqsUpTo(ClassGuidPool \cup {GuidEnumError}, MaxGuids) :
     DistinctKeys(gs) /\ ErrorOnlyLast(gs)}

\* either no class is registered and the TypeLib tree varies, or the class
\* registration varies over a TypeLib tree with one entry
InitClass ==
  /\ pc = "idle"
  /\ NoAtofCall
  /\ NoResolverCall
  /\ NoDecodeCall
  /\ NoHandle
  /\ loadable = {}
  /\ \/ \E gs \in ClassTrees, open \in BOOLEAN :
          catalog = [EmptyCatalog EXCEPT !.guids = gs, !.clsidOpen = open]
     \/ \E c \in ClassPool, vs \in {<<>>, <<Version(V10, TRUE, TRUE, TRUE, "{C}", <<Lang32>>)>>} :
          catalog = [EmptyCatalog EXCEPT !.classes = {c},
                                         !.guids = <<Guid("{G}", TRUE, TRUE, vs)>>]
     \/ catalog = [EmptyCatalog EXCEPT !.typelibOpen = FALSE]

TypelibFileCall ==
  /\ pc = "idle"
  /\ \E ole \in {"{C}", "Lib"} :
       \E r \in typelib_file(catalog, ole) :
           /\ ident' = [op |-> "typelib_file", ole |-> ole]
           /\ result' = r.res
           /\ attempts' = r.attempts
  /\ pc' = "typelib_file_done"
  /\ UNCHANGED <<decodeVars, atofVars, handleVars, catalog, loadable, loads>>

NextClass == TypelibFileCall

SpecClass == InitClass /\ [][NextClass]_vars

\* ------------------------------------------------ resolve_by_class: claims
\* the in-process server value of the class registration of ole, if it has one
HasServerValue(cat, ole) ==
  /\ cat.clsidOpen
  /\ \E c \in cat.classes :
        /\ c.key = ole /\ c.openOk
        /\ \/ c.inprocKey.openOk /\ c.inprocKey.hasValue
           \/ ~c.inprocKey.openOk /\ c.inprocValue.hasValue
ServerValue(cat, ole) ==
  LET c == CHOOSE d \in cat.classes : d.key = ole /\ d.openOk
  IN  IF c.inprocKey.openOk THEN c.inprocKey.value ELSE c.inprocValue.value

\* C6: when the class registration has an in-process server value, the path
\* returned is that value with every environment reference expanded.
C6_ServerPathIsExpanded ==
  (pc = "typelib_file_done" /\ HasServerValue(catalog, ident.ole)) =>
    result = Ok(ExpandEnvironmentStrings(ServerValue(catalog, ident.ole)))

\* the preferred paths of the version entries whose display string is ole
MatchingPaths(cat, ole) ==
  IF ~cat.typelibOpen THEN {}
  ELSE UNION {
         UNION {
           {PreferredPath(cat.guids[g].versions[j].langs[k]) :
              k \in {i \in 1..Len(cat.guids[g].versions[j].langs) :
                       HoldsPath(cat.guids[g].versions[j].langs[i])}}
           : j \in {i \in 1..Len(cat.guids[g].versions) :
                      /\ cat.guids[g].versions[i].enumOk
                      /\ cat.guids[g].versions[i].openOk
                      /\ cat.guids[g].versions[i].hasValue
                      /\ cat.guids[g].versions[i].value = ole}}
         : g \in {i \in 1..Len(cat.guids) : cat.guids[i].enumOk /\ cat.guids[i].openOk}}

ClassLookupFailed == attempts # <<>> /\ attempts[1].res.kind = "err"

\* C7: when the class lookup fails and the catalog holds, under any GUID and in
\* any order of its version keys, a version entry whose display string is the
\* identifier and which has a platform path, the call returns the path of such
\* an entry by the 64-bit, 32-bit, 16-bit preference.
C7_MatchingEntryPathIsReturned ==
  (/\ pc = "typelib_file_done"
   /\ ClassLookupFailed
   /\ MatchingPaths(catalog, ident.ole) # {}) =>
    /\ result.kind = "ok"
    /\ result.val \in MatchingPaths(catalog, ident.ole)

\* C8: when neither the class registration nor a version entry with a
\* platform path matches, the call returns an error value and does not panic.
C8_NoMatchIsAnError ==
  (/\ pc = "typelib_file_done"
   /\ ClassLookupFailed
   /\ MatchingPaths(catalog, ident.ole) = {}) =>
    result.kind = "err"

\* ------------------------------------------- the Library Handle accessors
LIBFLAG_FRESTRICTED == 1
LIBFLAG_FHIDDEN == 4

\* flags & bit != 0, for a bit that is a power of two
BitAnd(flags, bit) == IF (flags \div bit) % 2 = 1 THEN bit ELSE 0

\* what an accessor did: its result, and the attribute blocks it obtained and
\* released
Did(res, got, released) == [res |-> res, got |-> got, released |-> released]
NoAttr == Did(Err(WinError), 0, 0)

OleTypeLibData_guid(lib, attrOk) ==
  IF ~attrOk THEN NoAttr ELSE Did(Ok(lib.guid), 1, 1)

\* the decimal digits of a u16
DecimalDigits(n) ==
  IF n < 10 THEN 1 ELSE IF n < 100 THEN 2 ELSE IF n < 1000 THEN 3
  ELSE IF n < 10000 THEN 4 ELSE 5

\* format!("{major}.{minor}").parse::<f64>(); ReleaseTLibAttr is not called
OleTypeLibData_version(lib, attrOk) ==
  IF ~attrOk THEN NoAttr
  ELSE Did(Ok(Float(lib.wMajorVerNum * Pow10(DecimalDigits(lib.wMinorVerNum))
                      + lib.wMinorVerNum,
                    0 - DecimalDigits(lib.wMinorVerNum))),
           1, 0)

OleTypeLibData_major_version(lib, attrOk) ==
  IF ~attrOk THEN NoAttr ELSE Did(Ok(lib.wMajorVerNum), 1, 1)

OleTypeLibData_minor_version(lib, attrOk) ==
  IF ~attrOk THEN NoAttr ELSE Did(Ok(lib.wMinorVerNum), 1, 1)

\* QueryPathOfRegTypeLib succeeds for a registered library
RegisteredPath == <<"reg.tlb">>
OleTypeLibData_path(lib, attrOk) ==
  IF ~attrOk THEN NoAttr
  ELSE IF ~lib.registered
  THEN Did(Err(Msg("failed to QueryPathOfRegTypeTypeLib: <error>", "", <<>>)), 1, 1)
  ELSE Did(Ok(RegisteredPath), 1, 1)

\* the reading without the inversion: visible when neither bit is set
OleTypeLibData_visible_uninverted(lib, attrOk) ==
  IF ~attrOk THEN NoAttr
  ELSE Did(Ok(/\ BitAnd(lib.wLibFlags, LIBFLAG_FRESTRICTED) = 0
              /\ BitAnd(lib.wLibFlags, LIBFLAG_FHIDDEN) = 0),
           1, 1)

OleTypeLibData_visible(lib, attrOk) ==
  IF ~attrOk THEN NoAttr
  ELSE Did(Ok(\/ lib.wLibFlags = 0
              \/ BitAnd(lib.wLibFlags, LIBFLAG_FRESTRICTED) # 0
              \/ BitAnd(lib.wLibFlags, LIBFLAG_FHIDDEN) # 0),
           1, 1)

\* ------------------------------------------------ Library Handle: the runs
MaxOutstanding == 3   \* calls stop once this many attribute blocks are held
MaxFlags == 15        \* the library flags run over 0..MaxFlags

InitHandle ==
  /\ pc = "idle"
  /\ NoAtofCall
  /\ NoResolverCall
  /\ NoDecodeCall
  /\ catalog = EmptyCatalog
  /\ loadable = {}
  /\ outstanding = 0
  /\ library \in [guid : {"{G}"}, wMajorVerNum : {1, 2}, wMinorVerNum : {0, 5, 10},
                   wLibFlags : 0..MaxFlags, registered : BOOLEAN]

\* the call returns: the blocks it obtained and did not release stay out
Returns(op, did) ==
  /\ pc' = op
  /\ ident' = [op |-> op]
  /\ result' = did.res
  /\ outstanding' = outstanding + did.got - did.released
  /\ UNCHANGED <<decodeVars, atofVars, catalog, loadable, attempts, loads, library>>

GuidCall ==
  /\ outstanding < MaxOutstanding
  /\ \E attrOk \in BOOLEAN : Returns("guid", OleTypeLibData_guid(library, attrOk))

VersionCall ==
  /\ outstanding < MaxOutstanding
  /\ \E attrOk \in BOOLEAN : Returns("version", OleTypeLibData_version(library, attrOk))

MajorVersionCall ==
  /\ outstanding < MaxOutstanding
  /\ \E attrOk \in BOOLEAN : Returns("major_version", OleTypeLibData_major_version(library, attrOk))

MinorVersionCall ==
  /\ outstanding < MaxOutstanding
  /\ \E attrOk \in BOOLEAN : Returns("minor_version", OleTypeLibData_minor_version(library, attrOk))

PathCall ==
  /\ outstanding < MaxOutstanding
  /\ \E attrOk \in BOOLEAN : Returns("path", OleTypeLibData_path(library, attrOk))

VisibleCall ==
  /\ outstanding < MaxOutstanding
  /\ \E attrOk \in BOOLEAN : Returns("visible", OleTypeLibData_visible(library, attrOk))

NextHandle ==
  \/ GuidCall
  \/ VersionCall
  \/ MajorVersionCall
  \/ MinorVersionCall
  \/ PathCall
  \/ VisibleCall

SpecHandle == InitHandle /\ [][NextHandle]_vars

\* ---------------------------------------------- Library Handle: claims
\* C10: after any sequence of accessor calls, each returning on its success or
\* on an error path, no attribute block is outstanding between calls.
C10_NoAttributeBlockOutstanding == outstanding = 0

\* ------------------------------------------- is_visible over all flag values
\* wLibFlags is an unsigned 16-bit field
FlagBits == 16
AllFlags == 0..(2^FlagBits - 1)

InitVisible ==
  /\ pc = "idle"
  /\ NoAtofCall
  /\ NoResolverCall
  /\ NoDecodeCall
  /\ catalog = EmptyCatalog
  /\ loadable = {}
  /\ outstanding = 0
  /\ library \in [guid : {"{G}"}, wMajorVerNum : {1}, wMinorVerNum : {0},
                   wLibFlags : AllFlags, registered : {TRUE}]

NextVisible == VisibleCall

SpecVisible == InitVisible /\ [][NextVisible]_vars

\* the positions of the bits set in a flags value
BitsSet(flags) == {k \in 0..(FlagBits - 1) : (flags \div 2^k) % 2 = 1}
RestrictedBit == 0
HiddenBit == 2

\* C11: for every 16-bit flags value, visible() returns true exactly when the
\* flags are zero or the restricted bit is set or the hidden bit is set, and
\* false for every nonzero flags value with neither of those two bits set.
C11_VisibleIffZeroOrRestrictedOrHidden ==
  (pc = "visible" /\ result.kind = "ok") =>
    /\ result.val = (\/ library.wLibFlags = 0
                     \/ RestrictedBit \in BitsSet(library.wLibFlags)
                     \/ HiddenBit \in BitsSet(library.wLibFlags))
    /\ (/\ BitsSet(library.wLibFlags) # {}
        /\ BitsSet(library.wLibFlags) \cap {RestrictedBit, HiddenBit} = {})
          => result.val = FALSE

\* visible() answered true for a library flagged hidden, with the top bit of the
\* 16-bit field set as well
C11_Witness ==
  /\ pc = "visible"
  /\ result.kind = "ok"
  /\ BitsSet(library.wLibFlags) = {HiddenBit, FlagBits - 1}
  /\ result.val = TRUE

\* ------------------------------------------------ type descriptor decoder
\* A TYPEDESC is the sequence of its tags, outermost first: the descriptor that
\* lptdesc of a pointer or safe-array points to is the tail of the sequence.
VT_PTR == 26
VT_SAFEARRAY == 27
VT_USERDEFINED == 29

\* typedetails.push(s), when an accumulator is supplied
Push(details, s) == IF details.some THEN Some(Append(details.val, s)) ELSE details

\* what a decoder call hands back: the string, and the accumulator afterwards;
\* or it panicked, the accumulator holding what was pushed until then
Decoded(str, details) == [panic |-> FALSE, str |-> str, details |-> details]
DecodePanic(details) == [panic |-> TRUE, str |-> "", details |-> details]

\* the arms of the match that fall through to the common push
typestr(vt) ==
  CASE vt = 2 -> "I2"
    [] vt = 3 -> "I4"
    [] vt = 4 -> "R4"
    [] vt = 5 -> "R8"
    [] vt = 6 -> "CY"
    [] vt = 7 -> "DATE"
    [] vt = 8 -> "BSTR"
    [] vt = 11 -> "BOOL"
    [] vt = 12 -> "VARIANT"
    [] vt = 14 -> "DECIMAL"
    [] vt = 16 -> "I1"
    [] vt = 17 -> "UI1"
    [] vt = 18 -> "UI2"
    [] vt = 19 -> "UI4"
    [] vt = 20 -> "I8"
    [] vt = 21 -> "UI8"
    [] vt = 22 -> "INT"
    [] vt = 23 -> "UINT"
    [] vt = 24 -> "VOID"
    [] vt = 25 -> "HRESULT"
    [] vt = 28 -> "CARRAY"
    [] vt = 13 -> "UNKNOWN"
    [] vt = 9 -> "DISPATCH"
    [] vt = 10 -> "ERROR"
    [] vt = 31 -> "LPWSTR"
    [] vt = 30 -> "LPSTR"
    [] vt = 36 -> "RECORD"
    [] OTHER -> "Unknown Type " \o ToString(vt)

\* GetContainingTypeLib()?, typelib.unwrap(), GetDocumentation(index)?: the
\* host call fills an Option<ITypeLib>, which is unwrapped after a success
ole_docinfo_from_type(reftypeinfo) ==
  IF reftypeinfo.GetContainingTypeLib.kind # "ok" THEN Err(WinError)
  ELSE IF ~reftypeinfo.GetContainingTypeLib.val.some THEN Panic
  ELSE IF ~reftypeinfo.GetDocumentation.some THEN Err(WinError)
  ELSE Ok(reftypeinfo.GetDocumentation.val)

\* [panic, name, details]: the Option<String> returned and the accumulator
ole_usertype2val(ti, details) ==
  IF ~ti.GetRefTypeInfo.some
  THEN [panic |-> FALSE, name |-> None, details |-> details]
  ELSE Bind(ole_docinfo_from_type(ti.GetRefTypeInfo.val), LAMBDA doc :
         IF doc.kind = "panic"
         THEN [panic |-> TRUE, name |-> None, details |-> details]
         ELSE IF doc.kind # "ok"
         THEN [panic |-> FALSE, name |-> None, details |-> details]
         ELSE [panic |-> FALSE, name |-> Some(doc.val),
               details |-> Push(details, doc.val)])

RECURSIVE ole_typedesc2val(_, _, _)

\* only a pointer is followed
ole_ptrtype2val_pointer_only(ti, desc, details) ==
  IF Head(desc) = VT_PTR
  THEN ole_typedesc2val(ti, Tail(desc), details)
  ELSE Decoded("", details)

ole_ptrtype2val(ti, desc, details) ==
  IF Head(desc) = VT_PTR \/ Head(desc) = VT_SAFEARRAY
  THEN ole_typedesc2val(ti, Tail(desc), details)
  ELSE Decoded("", details)

ole_typedesc2val(ti, desc, details) ==
  IF Head(desc) = VT_PTR
  THEN ole_ptrtype2val(ti, desc, Push(details, "PTR"))
  ELSE IF Head(desc) = VT_SAFEARRAY
  THEN ole_ptrtype2val(ti, desc, Push(details, "SAFEARRAY"))
  ELSE IF Head(desc) = VT_USERDEFINED
  THEN Bind(ole_usertype2val(ti, Push(details, "USERDEFINED")), LAMBDA str :
         IF str.panic
         THEN DecodePanic(str.details)
         ELSE IF str.name.some
         THEN Decoded(str.name.val, str.details)
         ELSE Decoded("USERDEFINED", str.details))
  ELSE Decoded(typestr(Head(desc)), Push(details, typestr(Head(desc))))

\* ------------------------------------------------------ decoder: the runs
MaxDepth == 2     \* pointer / safe-array levels around the innermost descriptor
MaxTag == 37      \* the innermost tag runs over 0..MaxTag

\* the innermost descriptor embeds no other one
LeafTags == (0..MaxTag) \ {VT_PTR, VT_SAFEARRAY}
Wrappers == UNION {[1..n -> {VT_PTR, VT_SAFEARRAY}] : n \in 0..MaxDepth}
Descriptors == {w \o <<t>> : w \in Wrappers, t \in LeafTags}

TypeNames == {"IFoo", ""}
TypeLibs == {"lib"}
\* GetContainingTypeLib: an error, or a success that filled in the library, or
\* a success that left the Option<ITypeLib> empty
ContainingTypeLibs == {Err(WinError), Ok(None)} \cup {Ok(Some(l)) : l \in TypeLibs}
RefTypeInfos == [GetContainingTypeLib : ContainingTypeLibs,
                 GetDocumentation : {None} \cup {Some(n) : n \in TypeNames}]
TypeInfos == [GetRefTypeInfo : {None} \cup {Some(r) : r \in RefTypeInfos}]

\* the caller's accumulator may hold entries already
Accumulators == {None, Some(<<>>), Some(<<"BSTR">>)}

InitDecode ==
  /\ pc = "idle"
  /\ NoAtofCall
  /\ NoResolverCall
  /\ NoHandle
  /\ catalog = EmptyCatalog
  /\ loadable = {}
  /\ typeinfo \in TypeInfos
  /\ typedesc \in Descriptors
  /\ typedetails \in Accumulators
  /\ decoded = ""

DecodeCall ==
  /\ pc = "idle"
  /\ \E r \in {ole_typedesc2val(typeinfo, typedesc, typedetails)} :
       /\ pc' = IF r.panic THEN "ole_typedesc2val_panic" ELSE "ole_typedesc2val"
       /\ decoded' = r.str
       /\ typedetails' = r.details
  /\ UNCHANGED <<atofVars, regVars, handleVars, typeinfo, typedesc>>

NextDecode == DecodeCall

SpecDecode == InitDecode /\ [][NextDecode]_vars

\* ------------------------------------------------------ decoder: claims
\* the tag names of the VARENUM enumeration, without the VT_ prefix
VarEnumName ==
  (2 :> "I2") @@ (3 :> "I4") @@ (4 :> "R4") @@ (5 :> "R8") @@ (6 :> "CY") @@
  (7 :> "DATE") @@ (8 :> "BSTR") @@ (9 :> "DISPATCH") @@ (10 :> "ERROR") @@
  (11 :> "BOOL") @@ (12 :> "VARIANT") @@ (13 :> "UNKNOWN") @@
  (14 :> "DECIMAL") @@ (16 :> "I1") @@ (17 :> "UI1") @@ (18 :> "UI2") @@
  (19 :> "UI4") @@ (20 :> "I8") @@ (21 :> "UI8") @@ (22 :> "INT") @@
  (23 :> "UINT") @@ (24 :> "VOID") @@ (25 :> "HRESULT") @@ (26 :> "PTR") @@
  (27 :> "SAFEARRAY") @@ (28 :> "CARRAY") @@ (30 :> "LPSTR") @@
  (31 :> "LPWSTR") @@ (36 :> "RECORD")

Mnemonic(vt) ==
  IF vt \in DOMAIN VarEnumName THEN VarEnumName[vt]
  ELSE "Unknown Type " \o ToString(vt)

Leaf(desc) == desc[Len(desc)]
LevelMnemonics(desc) == [k \in 1..Len(desc) |-> Mnemonic(desc[k])]

\* C12: for a nesting of pointer and safe-array descriptors around a
\* non-recursive innermost tag, the decoder returns the mnemonic of the
\* innermost tag, whether or not an accumulator is supplied, and a supplied
\* accumulator gains one mnemonic per level, outermost first, ending with the
\* innermost one.
C12_LeafReturnedChainOuterToInner ==
  [][(DecodeCall /\ Leaf(typedesc) # VT_USERDEFINED) =>
       /\ pc' = "ole_typedesc2val"
       /\ decoded' = Mnemonic(Leaf(typedesc))
       /\ typedetails' =
            IF typedetails.some
            THEN Some(typedetails.val \o LevelMnemonics(typedesc))
            ELSE None]_vars

\* pointer -> safe-array -> signed-32 gave "I4" and the chain PTR, SAFEARRAY, I4
C12_Witness ==
  /\ pc = "ole_typedesc2val"
  /\ typedesc = <<VT_PTR, VT_SAFEARRAY, 3>>
  /\ decoded = "I4"
  /\ typedetails = Some(<<"PTR", "SAFEARRAY", "I4">>)

\* resolving the reference, finding the containing library and querying the
\* documentation all succeeded
Resolved(ti) ==
  /\ ti.GetRefTypeInfo.some
  /\ ti.GetRefTypeInfo.val.GetContainingTypeLib.kind = "ok"
  /\ ti.GetRefTypeInfo.val.GetContainingTypeLib.val.some
  /\ ti.GetRefTypeInfo.val.GetDocumentation.some
DocumentedName(ti) == ti.GetRefTypeInfo.val.GetDocumentation.val

\* C13: the decoder never fails on a user-defined descriptor: when resolving
\* the reference or the documentation lookup fails it returns "USERDEFINED" and
\* the accumulator gains only "USERDEFINED"; when both succeed it returns the
\* documented name and the accumulator gains "USERDEFINED" and that name.
C13_UserDefinedNeverFails ==
  [][(DecodeCall /\ typedesc = <<VT_USERDEFINED>>) =>
       /\ pc' = "ole_typedesc2val"
       /\ decoded' = IF Resolved(typeinfo) THEN DocumentedName(typeinfo)
                     ELSE "USERDEFINED"
       /\ typedetails' =
            IF ~typedetails.some THEN None
            ELSE IF Resolved(typeinfo)
            THEN Some(typedetails.val \o <<"USERDEFINED", DocumentedName(typeinfo)>>)
            ELSE Some(typedetails.val \o <<"USERDEFINED">>)]_vars

\* -------------------------------------------------- parse_loose_decimal claims
RECURSIVE DigitRunLen(_)
DigitRunLen(t) ==
  IF t # <<>> /\ isdigit(Head(t)) THEN 1 + DigitRunLen(Tail(t)) ELSE 0

RECURSIVE NumVal(_)
NumVal(t) ==
  IF t = <<>> THEN 0 ELSE NumVal(SubSeq(t, 1, Len(t) - 1)) * 10 + DigitVal(t[Len(t)])

Drop(t, n) == SubSeq(t, n + 1, Len(t))
Take(t, n) == SubSeq(t, 1, n)

\* reading of <digits>[.<digits>][e[<sign>]<digits>] by the grammar, not by atof:
\* [ok, m, e] with value m * 10^e
DecimalReading(s) ==
  LET il    == DigitRunLen(s)
      r1    == Drop(s, il)
      hasF  == r1 # <<>> /\ Head(r1) = "."
      fl    == IF hasF THEN DigitRunLen(Tail(r1)) ELSE 0
      r2    == IF hasF THEN Drop(r1, fl + 1) ELSE r1
      hasX  == r2 # <<>> /\ Head(r2) \in {"e", "E"}
      r3    == IF hasX THEN Tail(r2) ELSE r2
      hasS  == hasX /\ r3 # <<>> /\ Head(r3) \in {"+", "-"}
      neg   == hasS /\ Head(r3) = "-"
      r4    == IF hasS THEN Tail(r3) ELSE r3
      xl    == IF hasX THEN DigitRunLen(r4) ELSE 0
      r5    == Drop(r4, xl)
      mant  == NumVal(Take(s, il) \o (IF hasF THEN Take(Tail(r1), fl) ELSE <<>>))
      ex    == IF neg THEN 0 - NumVal(Take(r4, xl)) ELSE NumVal(Take(r4, xl))
  IN  [ok |-> /\ il > 0
              /\ (hasF => fl > 0)
              /\ (hasX => xl > 0)
              /\ r5 = <<>>,
       val |-> Float(mant, ex - fl)]

HasDigit(s) == \E k \in 1..Len(s) : isdigit(s[k])

\* C4: parse_loose_decimal returns a value without panicking for every input
\* string, and returns 0.0 for the empty string and every string with no digit.
C4_NoPanicZeroWithoutDigit ==
  pc = "atof_done" =>
    /\ ~atofOut.panic
    /\ (~HasDigit(input) => atofOut.val = Float(0, 0))

\* C5: for every string <digits>[.<digits>][e[<sign>]<digits>] the result is
\* the exact value (integer part + fraction) * 10^exponent.
C5_ExactOnDecimalForms ==
  (pc = "atof_done" /\ DecimalReading(input).ok) =>
    /\ ~atofOut.panic
    /\ atofOut.val = DecimalReading(input).val

====
